---- MODULE Spec2Model ----
(***************************************************************************)
(* webpack-http-server: the compilation lifecycle of WebpackHttpServer and *)
(* Compilation (src/src/WebpackHttpServer.ts) and the asset route          *)
(* withMemoryFs (src/src/middleware/useMemoryFs.ts).                        *)
(*                                                                         *)
(* The program runs on one event loop: every action below is one callback  *)
(* (an API call up to its first await, an HTTP handler, a webpack watch    *)
(* callback, a compiler close callback) together with the promise          *)
(* reactions it triggers, which run as microtasks before any other         *)
(* callback.                                                               *)
(*                                                                         *)
(* Environment: crypto.randomBytes(16) is taken as an ideal source of      *)
(* 128-bit values (a value once drawn is not drawn again); webpack calls   *)
(* the watch handler only while the compiler is watching and calls the     *)
(* close callback once per close.                                          *)
(***************************************************************************)
EXTENDS Integers, Sequences, FiniteSets, TLC

\* ------------------------------------------------------------- bounds
\* Compilers (webpack instances) created in a run, over all Compilations.
MaxCompilers == 2
\* Builds the compilers complete in a run (calls of the watch callback).
MaxBuilds == 2
\* Routers mounted with Compilation.use in a run.
MaxMounts == 1

\* ------------------------------------------------------------- values
\* Hex strings crypto.randomBytes(16).toString('hex') can return: as many
\* as there can be Compilations (each owns at least its first compiler).
IdNames == <<"a", "b", "c", "d">>
Ids == {IdNames[i] : i \in 1..MaxCompilers}

\* File names: the one webpack emits for the entry "main", and one it never emits.
MainJs == "main.js"
ExtraJs == "extra.js"

\* File paths are sequences of characters.
AbsA == <<"/", "x">>
AbsB == <<"/", "y">>
RelA == <<"r">>

Paths == {AbsA, AbsB, RelA}

\* The entries argument of the Node API: Array<string>.
EntryLists == {<<>>, <<AbsA>>, <<RelA>>, <<AbsA, AbsB>>, <<AbsA, RelA>>}

Instances == 1..MaxCompilers

NoRecords == [x \in {} |-> 0]

VARIABLES
    server,         \* this.server: "unset" | "binding" | "bound" | "closed"
    compilations,   \* this.compilations: Map<id, CompilationRecord>
    nComp,          \* number of Compilation objects constructed so far
    id,             \* Compilation.id, per instance
    state,          \* Compilation.state, per instance ("none" before construction)
    stats,          \* Compilation.stats, per instance: 0 is undefined, else a build's output
    compilers,      \* Compilation.compilers, per instance: sequence of compiler records
    call,           \* the WebpackHttpServer.compile call that made the instance
    disposing,      \* the dispose() call in flight on the instance
    emitted,        \* number of 'disposed' events emitted by the instance
    builds,         \* number of builds webpack has completed (names the outputs)
    lastBuilt,      \* per instance: output of the latest successful build webpack reported
    firstBuild,     \* per instance: how webpack's first build ended: "none" | "ok" | "failed"
    fs,             \* this.fs: the set of files of the memory volume, as segment sequences
    stack,          \* the middleware stack of this.app, in registration order
    result,         \* outcome of the latest observed API call or HTTP request
    observed        \* the operations whose outcome the run records in result

vars == <<server, compilations, nComp, id, state, stats, compilers, call,
          disposing, emitted, builds, lastBuilt, firstBuild, fs, stack, result, observed>>

\* What an API call or a request came to: the operation, the Compilation it
\* is about (0: none), how it ended, and whether every entry path it was
\* given starts with "/" (TRUE for the operations that take no entries).
NoResult ==
    [op |-> "none", arg |-> 0, outcome |-> "none", absolute |-> TRUE, was |-> "none",
     id |-> "", asset |-> <<>>, file |-> <<>>, missing |-> FALSE, mounted |-> FALSE]

\* The program never reads result: it is what an observer of the calls of
\* the kinds in observed has seen last. was: the state of Compilation arg
\* when the call was made.
R(op, arg, outcome, input) ==
    IF op \notin observed THEN NoResult ELSE
    [NoResult EXCEPT
       !.op = op, !.arg = arg, !.outcome = outcome,
       !.absolute = \A i \in DOMAIN input : input[i] # <<>> /\ Head(input[i]) = "/",
       !.was = IF arg \in Instances THEN state[arg] ELSE "none"]

\* ------------------------------------------------------------- helpers

\* path.isAbsolute (posix)
isAbsolute(p) == Len(p) > 0 /\ p[1] = "/"

\* Map.prototype.has / set / delete / clear
Has(m, k) == k \in DOMAIN m
MapSet(m, k, v) == [x \in DOMAIN m \cup {k} |-> IF x = k THEN v ELSE m[x]]
MapDelete(m, k) == [x \in DOMAIN m \ {k} |-> m[x]]

\* outvariant's invariant(this.server, ...)
ServerSet == server # "unset"

\* get serverUrl: "ok" when it returns a URL, else the error it throws.
\* this.server.address() is null unless the listener is bound.
serverUrl ==
    IF ~ServerSet THEN "InvariantError"
    ELSE IF server = "bound" THEN "ok"
    ELSE "TypeError"

\* crypto.randomBytes(16).toString('hex')
UsedIds == {id[c] : c \in 1..nComp}
randomBytes == Ids \ UsedIds

\* The compilers created so far.
RECURSIVE CompilersOf(_)
CompilersOf(c) == IF c = 0 THEN 0 ELSE Len(compilers[c]) + CompilersOf(c - 1)
TotalCompilers == CompilersOf(MaxCompilers)

NewCompiler == [status |-> "watching", promise |-> "pending", closeCalls |-> 0]

Init ==
    /\ server = "unset"
    /\ compilations = NoRecords
    /\ nComp = 0
    /\ id = [c \in Instances |-> ""]
    /\ state = [c \in Instances |-> "none"]
    /\ stats = [c \in Instances |-> 0]
    /\ compilers = [c \in Instances |-> <<>>]
    /\ call = [c \in Instances |-> "none"]
    /\ disposing = [c \in Instances |-> "idle"]
    /\ emitted = [c \in Instances |-> 0]
    /\ builds = 0
    /\ lastBuilt = [c \in Instances |-> 0]
    /\ firstBuild = [c \in Instances |-> "none"]
    /\ fs = {}
    /\ stack = <<[kind |-> "preview", prefix |-> "", path |-> ""],
                 [kind |-> "assets", prefix |-> "", path |-> ""],
                 [kind |-> "post", prefix |-> "", path |-> ""]>>
    /\ result = NoResult

\* ------------------------------------------------------------- server lifecycle

\* WebpackHttpServer.listen: this.server is assigned at once, the promise
\* resolves from the listening callback.
listen ==
    /\ server \in {"unset", "closed"}
    /\ server' = "binding"
    /\ result' = R("listen", 0, "pending", <<>>)
    /\ UNCHANGED <<observed, compilations, nComp, id, state, stats, compilers, call,
                   disposing, emitted, builds, lastBuilt, firstBuild, fs, stack>>

listening ==
    /\ server = "binding"
    /\ server' = "bound"
    /\ result' = R("listen", 0, "resolved", <<>>)
    /\ UNCHANGED <<observed, compilations, nComp, id, state, stats, compilers, call,
                   disposing, emitted, builds, lastBuilt, firstBuild, fs, stack>>

\* WebpackHttpServer.close
close ==
    /\ compilations' = NoRecords
    /\ IF ~ServerSet
         THEN /\ result' = R("close", 0, "InvariantError", <<>>)
              /\ UNCHANGED server
         ELSE IF server = "bound"
         THEN /\ server' = "closed"
              /\ result' = R("close", 0, "resolved", <<>>)
         ELSE /\ result' = R("close", 0, "rejected", <<>>)
              /\ UNCHANGED server
    /\ UNCHANGED <<observed, nComp, id, state, stats, compilers, call,
                   disposing, emitted, builds, lastBuilt, firstBuild, fs, stack>>

\* ------------------------------------------------------------- Compilation

\* Compilation.compile without its invariant(...).
canCompileAlways(c) == TRUE

\* invariant(this.state === 'active', ...) of Compilation.compile
canCompile(c) == state[c] = "active"

\* Compilation.dispose without its invariant(...).
canDisposeAlways(c) == TRUE

\* invariant(this.state === 'active', ...) of Compilation.dispose
canDispose(c) == state[c] = "active"

\* handleIncrementalBuild: this.compilations.set(compilationId, record)
handleIncrementalBuild(m, compilationId, record) == MapSet(m, compilationId, record)

\* The record WebpackHttpServer.compile registers for instance c. Its
\* entries and options fields are never read back by the server (the
\* preview lists the entries of the stats), so only compilation is kept.
RecordOf(c) == [compilation |-> c]

\* The 'disposed' listener, were it to clear the registry.
clearOnDisposed(m, c) == IF emitted[c] = 0 THEN NoRecords ELSE m

\* compilation.once('disposed', () => this.compilations.delete(compilation.id))
\* The listener is detached by its first run.
onDisposed(m, c) == IF emitted[c] = 0 THEN MapDelete(m, id[c]) ELSE m

\* WebpackHttpServer.compile up to its await: the serverUrl getter, the
\* Compilation constructor, the 'disposed' listener and Compilation.compile
\* up to compiler.watch. origin is "node" for the Node API and "http" for
\* the POST /compilation handler that calls it.
compile(es, origin) ==
    IF serverUrl # "ok"
    THEN /\ result' = R(IF origin = "http" THEN "POST" ELSE "compile", 0, serverUrl, es)
         /\ UNCHANGED <<observed, server, compilations, nComp, id, state, stats, compilers,
                        call, disposing, emitted, builds, lastBuilt, firstBuild, fs, stack>>
    ELSE /\ TotalCompilers < MaxCompilers
         /\ \E newId \in randomBytes :
              LET c == nComp + 1 IN
              /\ nComp' = c
              /\ id' = [id EXCEPT ![c] = newId]
              /\ state' = [state EXCEPT ![c] = "active"]
              /\ compilers' = [compilers EXCEPT ![c] = <<NewCompiler>>]
              /\ call' = [call EXCEPT ![c] = IF origin = "http" THEN "httpPending" ELSE "pending"]
              /\ result' = R(IF origin = "http" THEN "POST" ELSE "compile", c, "pending", es)
         /\ UNCHANGED <<observed, server, compilations, stats, disposing, emitted, builds, lastBuilt,
                        firstBuild, fs, stack>>

\* The Node API: server.compile(entries, options)
NodeCompile == \E es \in EntryLists : compile(es, "node")

\* Compilation.compile called again by the holder of the Compilation.
CompilationCompile(c) ==
    /\ call[c] = "returned"
    /\ IF ~canCompile(c)
         THEN /\ result' = R("Compilation.compile", c, "InvariantError", <<>>)
              /\ UNCHANGED compilers
         ELSE /\ TotalCompilers < MaxCompilers
              /\ compilers' = [compilers EXCEPT ![c] = Append(@, NewCompiler)]
              /\ result' = R("Compilation.compile", c, "pending", <<>>)
    /\ UNCHANGED <<observed, server, compilations, nComp, id, state, stats, call,
                   disposing, emitted, builds, lastBuilt, firstBuild, fs, stack>>

\* this.stats, were it assigned before the callback looks at the errors.
statsBeforeErrorCheck(c, ok, output) == output

\* this.stats after a watch callback: set on success, left alone on errors.
statsAfter(c, ok, output) == IF ok THEN output ELSE stats[c]

\* The promise of one Compilation.compile call after a watch callback: the
\* first callback settles it, later resolve/reject calls do nothing.
settle(promise, ok) ==
    IF promise = "pending" THEN (IF ok THEN "resolved" ELSE "rejected") ELSE promise

\* The registry, were handleIncrementalBuild called from the watch callback
\* on every successful build of the first compiler.
registryAfterEveryBuild(c, k, ok) ==
    IF k = 1 /\ ok
    THEN handleIncrementalBuild(compilations, id[c], RecordOf(c))
    ELSE compilations

\* The registry, were the record set when the awaited promise settles
\* either way (.finally in the place of .then).
registryAfterSettled(c, k, ok) ==
    IF k = 1 /\ compilers[c][1].promise = "pending"
    THEN handleIncrementalBuild(compilations, id[c], RecordOf(c))
    ELSE compilations

\* The registry after the watch callback of compiler k of instance c: the
\* .then of WebpackHttpServer.compile runs when the promise it awaits (that
\* of the first compiler) resolves.
registryAfter(c, k, ok) ==
    IF k = 1 /\ compilers[c][1].promise = "pending" /\ ok
    THEN handleIncrementalBuild(compilations, id[c], RecordOf(c))
    ELSE compilations

\* The compile call of WebpackHttpServer after the watch callback: it
\* returns the Compilation or throws; the POST handler that awaits it
\* answers with the previewUrl, or is left with a rejected promise that
\* nothing handles ("unanswered").
callAfter(c, k, ok) ==
    IF k = 1 /\ compilers[c][1].promise = "pending"
    THEN CASE call[c] = "pending" -> (IF ok THEN "returned" ELSE "threw")
           [] call[c] = "httpPending" -> (IF ok THEN "responded" ELSE "unanswered")
           [] OTHER -> call[c]
    ELSE call[c]

\* output.path of the webpackConfig: path.resolve('compilation', compilation.id, 'dist'),
\* relative to the working directory.
outputPath(c) == <<"compilation", id[c], "dist">>

\* The files webpack writes for a successful build of the entry "main".
emit(c) == {outputPath(c) \o <<MainJs>>}

\* The callback of compiler.watch, for compiler k of instance c: ok is
\* !(error || stats.hasErrors()).
watchCallback(c, k, ok) ==
    /\ k \in DOMAIN compilers[c]
    /\ compilers[c][k].status = "watching"
    /\ builds < MaxBuilds
    /\ builds' = builds + 1
    /\ lastBuilt' = [lastBuilt EXCEPT ![c] = IF ok THEN builds + 1 ELSE @]
    /\ stats' = [stats EXCEPT ![c] = statsAfter(c, ok, builds + 1)]
    /\ compilers' = [compilers EXCEPT ![c][k].promise = settle(@, ok)]
    /\ compilations' = registryAfter(c, k, ok)
    /\ call' = [call EXCEPT ![c] = callAfter(c, k, ok)]
    /\ result' = IF compilers[c][k].promise # "pending" THEN NoResult
                   ELSE IF k # 1
                   THEN R("Compilation.compile", c, IF ok THEN "resolved" ELSE "rejected", <<>>)
                   ELSE IF call[c] = "httpPending"
                   THEN R("POST", c, IF ok THEN "200" ELSE "unanswered", <<>>)
                   ELSE R("compile", c, IF ok THEN "resolved" ELSE "rejected", <<>>)
    /\ fs' = IF ok THEN fs \cup emit(c) ELSE fs
    /\ firstBuild' = [firstBuild EXCEPT ![c] = IF @ = "none" THEN (IF ok THEN "ok" ELSE "failed") ELSE @]
    /\ UNCHANGED <<observed, server, nComp, id, state, disposing, emitted, stack>>

\* compiler.close(cb) on every compiler of this.compilers
closeAll(cs) ==
    [k \in DOMAIN cs |->
        [cs[k] EXCEPT !.status = "closing", !.closeCalls = @ + 1]]

\* Compilation.dispose up to its await
dispose(c) ==
    /\ call[c] = "returned"
    /\ IF ~canDispose(c)
         THEN /\ result' = R("dispose", c, "InvariantError", <<>>)
              /\ UNCHANGED <<state, compilers, disposing>>
         ELSE /\ state' = [state EXCEPT ![c] = "disposed"]
              /\ compilers' = [compilers EXCEPT ![c] = closeAll(@)]
              /\ disposing' = [disposing EXCEPT ![c] = "awaiting"]
              /\ result' = R("dispose", c, "pending", <<>>)
    /\ UNCHANGED <<observed, server, compilations, nComp, id, stats, call,
                   emitted, builds, lastBuilt, firstBuild, fs, stack>>

\* Promise.race in the place of Promise.all: settled by the first compiler
\* to call back.
raceSettled(cs, disp) ==
    IF disp # "awaiting" THEN disp
    ELSE IF \E k \in DOMAIN cs : cs[k].status = "closeFailed" THEN "rejected"
    ELSE IF \E k \in DOMAIN cs : cs[k].status = "closed" THEN "resolved"
    ELSE "awaiting"

\* Promise.all(onceCompilersClosed) after a close callback: rejected by the
\* first error, resolved once every compiler has closed.
allSettled(cs, disp) ==
    IF disp # "awaiting" THEN disp
    ELSE IF \E k \in DOMAIN cs : cs[k].status = "closeFailed" THEN "rejected"
    ELSE IF \A k \in DOMAIN cs : cs[k].status = "closed" THEN "resolved"
    ELSE "awaiting"

\* The callback of compiler.close for compiler k of instance c, and the
\* rest of dispose when it settles Promise.all: this.emit('disposed').
closeCallback(c, k, error) ==
    /\ k \in DOMAIN compilers[c]
    /\ compilers[c][k].status = "closing"
    /\ LET cs == [compilers[c] EXCEPT ![k].status = IF error THEN "closeFailed" ELSE "closed"]
           disp == allSettled(cs, disposing[c])
           emits == disposing[c] = "awaiting" /\ disp = "resolved"
       IN /\ compilers' = [compilers EXCEPT ![c] = cs]
          /\ disposing' = [disposing EXCEPT ![c] = disp]
          /\ emitted' = [emitted EXCEPT ![c] = IF emits THEN @ + 1 ELSE @]
          /\ compilations' = IF emits THEN onDisposed(compilations, c) ELSE compilations
          /\ result' = IF disp # disposing[c] THEN R("dispose settled", c, disp, <<>>)
                        ELSE NoResult
    /\ UNCHANGED <<observed, server, nComp, id, state, stats, call, builds, lastBuilt, firstBuild, fs, stack>>

\* ------------------------------------------------------------- HTTP

\* Array.prototype.concat([], entry) for the entry of the request body:
\* a string or an array of strings.
concat(entry) == IF entry.kind = "string" THEN <<entry.value>> ELSE entry.value

\* entries.every((entry) => path.isAbsolute(entry)), as it would be with
\* some in the place of every.
someAbsolute(es) == \E i \in DOMAIN es : isAbsolute(es[i])

\* entries.every((entry) => path.isAbsolute(entry))
everyAbsolute(es) == \A i \in DOMAIN es : isAbsolute(es[i])

\* The handler of app.post('/compilation', ...) for a body whose entry is
\* the given string or array.
post(entry) ==
    LET es == concat(entry) IN
    IF ~everyAbsolute(es)
    THEN /\ result' = R("POST", 0, "400", es)
         /\ UNCHANGED <<observed, server, compilations, nComp, id, state, stats, compilers,
                        call, disposing, emitted, builds, lastBuilt, firstBuild, fs, stack>>
    ELSE compile(es, "http")

\* POST /compilation: a request reaches the handler only while the listener
\* is bound.
postCompilation ==
    /\ server = "bound"
    /\ \/ \E p \in Paths : post([kind |-> "string", value |-> p])
       \/ \E es \in EntryLists : post([kind |-> "array", value |-> es])

\* Compilation.use: this.options.app.use(this.previewRoute, router), for a
\* router with one route, at /<name>. The layer goes to the end of the stack.
use(c, name) ==
    /\ call[c] = "returned"
    /\ Cardinality({i \in DOMAIN stack : stack[i].kind = "router"}) < MaxMounts
    /\ stack' = Append(stack, [kind |-> "router", prefix |-> id[c], path |-> name])
    /\ result' = R("use", c, "mounted", <<>>)
    /\ UNCHANGED <<observed, server, compilations, nComp, id, state, stats, compilers, call,
                   disposing, emitted, builds, lastBuilt, firstBuild, fs>>

\* path.normalize on a relative path given as its segments: "." and empty
\* segments go, ".." removes the segment before it, and stays when there is
\* none (or only ".." before it).
RECURSIVE normalize(_, _)
normalize(done, rest) ==
    IF rest = <<>> THEN done
    ELSE LET seg == Head(rest) IN
         IF seg = "." \/ seg = "" THEN normalize(done, Tail(rest))
         ELSE IF seg = ".."
              THEN IF done # <<>> /\ done[Len(done)] # ".."
                   THEN normalize(SubSeq(done, 1, Len(done) - 1), Tail(rest))
                   ELSE normalize(Append(done, ".."), Tail(rest))
              ELSE normalize(Append(done, seg), Tail(rest))

\* path.join('compilation', req.params.id, 'dist', req.params.assetPath):
\* a parameter is the URL-decoded segment of the request, so it may itself
\* hold separators; it is given here split at them.
join(idParam, assetParam) ==
    normalize(<<>>, <<"compilation">> \o idParam \o <<"dist">> \o assetParam)

\* fs.existsSync(filePath), for files
existsSync(filePath) == filePath \in fs

\* useMemoryFs, the middleware without next: res.status(404) and nothing
\* more when the file is missing.
useMemoryFs(idParam, assetParam) ==
    IF ~existsSync(join(idParam, assetParam)) THEN "status404" ELSE "stream"

\* withMemoryFs: "stream" when the file is piped to the response, "next"
\* when the next middleware is called.
withMemoryFs(idParam, assetParam) ==
    IF ~existsSync(join(idParam, assetParam)) THEN "next" ELSE "stream"

\* Whether the router layer mounted at /compilation/<prefix>/ with a route
\* /<path> matches GET /compilation/<id>/<asset>: it is matched against the
\* raw URL, in which an encoded separator separates nothing.
routerMatches(layer, idParam, assetParam) ==
    /\ idParam = <<layer.prefix>>
    /\ assetParam = <<layer.path>>

\* Express walking this.app's stack from layer i for GET
\* /compilation/<id>/<asset>: who answers. The preview route matches
\* /compilation/:id only and the compilation route POST only, so both pass
\* the request on; with no layer left the request is "unhandled" (Express's
\* final handler answers it).
RECURSIVE handle(_, _, _)
handle(i, idParam, assetParam) ==
    IF i > Len(stack) THEN "unhandled"
    ELSE LET layer == stack[i] IN
         CASE layer.kind = "assets" ->
                IF withMemoryFs(idParam, assetParam) = "next"
                THEN handle(i + 1, idParam, assetParam)
                ELSE withMemoryFs(idParam, assetParam)
           [] layer.kind = "router" ->
                IF routerMatches(layer, idParam, assetParam) THEN "custom"
                ELSE handle(i + 1, idParam, assetParam)
           [] OTHER -> handle(i + 1, idParam, assetParam)

\* The decoded values of :assetPath that are requested: a file name, or a
\* path that climbs out of dist into another compilation's directory.
AssetParams ==
    {<<MainJs>>, <<ExtraJs>>}
    \cup {<<"..", "..", a, "dist", MainJs>> : a \in Ids}

\* GET /compilation/<id>/<asset>
assetRequest(idParam, assetParam) ==
    /\ server = "bound"
    /\ result' = IF "GET" \notin observed THEN NoResult ELSE
                 LET file == join(idParam, assetParam) IN
                 [NoResult EXCEPT
                    !.op = "GET", !.outcome = handle(1, idParam, assetParam),
                    !.id = idParam[1], !.asset = assetParam,
                    !.file = file,
                    !.missing = file \notin fs,
                    !.mounted = \E i \in DOMAIN stack :
                                   /\ stack[i].kind = "router"
                                   /\ <<stack[i].prefix>> = idParam
                                   /\ <<stack[i].path>> = assetParam]
    /\ UNCHANGED <<observed, server, compilations, nComp, id, state, stats, compilers, call,
                   disposing, emitted, builds, lastBuilt, firstBuild, fs, stack>>

\* stream.pipe(res) returns its destination: the listeners chained after it,
\* .once('error', console.error) and .on('end', () => res.end()), are put on
\* the response, none on the read stream.
pipe(source, destination) == destination

\* The response when the read stream has ended: pipe ends its destination
\* (its end option defaults to true); the 'end' listener, which is on the
\* response, never runs.
onStreamEnd == "ended"

\* The response when the read stream reports an error: pipe leaves the
\* destination as it is, and the error is logged only by a listener on the
\* read stream; with none, Node throws it as an uncaught exception.
onStreamError ==
    IF pipe("stream", "res") = "stream" THEN "logged, open" ELSE "uncaught, open"

\* The read stream of the request last answered by the asset route ends:
\* the outcome of the request becomes that of its response.
streamEnd ==
    /\ result.op = "GET"
    /\ result.outcome = "stream"
    /\ result' = [result EXCEPT !.outcome = onStreamEnd]
    /\ UNCHANGED <<observed, server, compilations, nComp, id, state, stats, compilers, call,
                   disposing, emitted, builds, lastBuilt, firstBuild, fs, stack>>

\* The read stream of the request last answered by the asset route reports
\* an error.
streamError ==
    /\ result.op = "GET"
    /\ result.outcome = "stream"
    /\ result' = [result EXCEPT !.outcome = onStreamError]
    /\ UNCHANGED <<observed, server, compilations, nComp, id, state, stats, compilers, call,
                   disposing, emitted, builds, lastBuilt, firstBuild, fs, stack>>

\* this.compilations.has(id), as it would be were the ID looked up among
\* the Compilations ever constructed.
everConstructed(i) == i \in UsedIds

\* this.compilations.has(id) of the preview route
previewLookup(i) == Has(compilations, i)

\* renderPreview: the invariant on the registry, the message for a
\* Compilation without stats, else the document rendered from the stats.
renderPreview(i) ==
    IF ~Has(compilations, i) THEN "InvariantError"
    ELSE IF stats[compilations[i].compilation] = 0 THEN "noStats"
    ELSE "preview"

\* GET /compilation/<id>: 404 or the rendered document. missing: whether the
\* registry held no record under the ID when the request was handled.
previewRequest(i) ==
    /\ server = "bound"
    /\ result' = IF "GET preview" \notin observed THEN NoResult ELSE
                 [NoResult EXCEPT
                    !.op = "GET preview", !.id = i,
                    !.missing = ~Has(compilations, i),
                    !.outcome = IF ~previewLookup(i) THEN "404" ELSE renderPreview(i)]
    /\ UNCHANGED <<observed, server, compilations, nComp, id, state, stats, compilers, call,
                   disposing, emitted, builds, lastBuilt, firstBuild, fs, stack>>

\* The server and its compilations.
Next ==
    \/ listen
    \/ listening
    \/ close
    \/ NodeCompile
    \/ postCompilation
    \/ \E c \in 1..nComp : CompilationCompile(c)
    \/ \E c \in 1..nComp, k \in 1..MaxCompilers, ok \in BOOLEAN : watchCallback(c, k, ok)
    \/ \E c \in 1..nComp : dispose(c)
    \/ \E c \in 1..nComp, k \in 1..MaxCompilers, error \in BOOLEAN : closeCallback(c, k, error)

\* The routes under /compilation/<id>/ while the server is up: compilations
\* made through the Node API (the only ones whose holder can call use), their
\* builds, the routers mounted on them and the requests for their assets.
\* close and dispose are left to Next: they touch neither the memory file
\* system nor the stack of the application, which is all a request reads.
NextRoutes ==
    \/ listen
    \/ listening
    \/ NodeCompile
    \/ \E c \in 1..nComp, k \in 1..MaxCompilers, ok \in BOOLEAN : watchCallback(c, k, ok)
    \/ \E c \in 1..nComp, name \in {MainJs, ExtraJs} : use(c, name)
    \/ \E i \in Ids, asset \in AssetParams : assetRequest(<<i>>, asset)

\* The asset route with the events of the read streams it opens.
NextStream ==
    \/ listen
    \/ listening
    \/ NodeCompile
    \/ \E c \in 1..nComp, k \in 1..MaxCompilers, ok \in BOOLEAN : watchCallback(c, k, ok)
    \/ \E i \in Ids, asset \in AssetParams : assetRequest(<<i>>, asset)
    \/ streamEnd
    \/ streamError

\* The routes under /compilation/<id>/ with the disposal of the
\* Compilations that mounted them.
NextDisposedRoutes ==
    \/ listen
    \/ listening
    \/ NodeCompile
    \/ \E c \in 1..nComp, k \in 1..MaxCompilers, ok \in BOOLEAN : watchCallback(c, k, ok)
    \/ \E c \in 1..nComp, name \in {MainJs, ExtraJs} : use(c, name)
    \/ \E c \in 1..nComp : dispose(c)
    \/ \E c \in 1..nComp, k \in 1..MaxCompilers, error \in BOOLEAN : closeCallback(c, k, error)
    \/ \E i \in Ids, asset \in AssetParams : assetRequest(<<i>>, asset)

\* The preview route: the server, the compilations, their builds and their
\* disposal (all that changes the registry and the stats), and the requests
\* for previews.
NextPreview ==
    \/ listen
    \/ listening
    \/ close
    \/ NodeCompile
    \/ postCompilation
    \/ \E c \in 1..nComp, k \in 1..MaxCompilers, ok \in BOOLEAN : watchCallback(c, k, ok)
    \/ \E c \in 1..nComp : dispose(c)
    \/ \E c \in 1..nComp, k \in 1..MaxCompilers, error \in BOOLEAN : closeCallback(c, k, error)
    \/ \E i \in Ids : previewRequest(i)

\* The specifications differ in what is observed only: the same steps are
\* taken whatever is recorded in result.
InitQuiet == Init /\ observed = {}
InitDispose == Init /\ observed = {"dispose"}
InitCompile == Init /\ observed = {"Compilation.compile"}
InitPost == Init /\ observed = {"POST"}
InitGet == Init /\ observed = {"GET"}
InitNode == Init /\ observed = {"compile"}
InitPreview == Init /\ observed = {"GET preview"}

Spec == InitQuiet /\ [][Next]_vars
SpecDispose == InitDispose /\ [][Next]_vars
SpecCompile == InitCompile /\ [][Next]_vars
SpecPost == InitPost /\ [][Next]_vars
SpecNode == InitNode /\ [][Next]_vars
SpecPreview == InitPreview /\ [][NextPreview]_vars
SpecStream == InitGet /\ [][NextStream]_vars
SpecDisposedRoutes == InitGet /\ [][NextDisposedRoutes]_vars
SpecRoutes == InitGet /\ [][NextRoutes]_vars

\* ------------------------------------------------------------- properties

Constructed == 1..nComp

\* The Compilations whose creation call has handed them (or their preview
\* URL) to the client.
Returned == {c \in Constructed : call[c] \in {"returned", "responded"}}

\* C1 (registration atomicity): every key of the registry holds the record of
\* a Compilation with that ID whose first build succeeded; a Compilation
\* whose first build failed is in no record, whatever its later builds did.
C1_RegistrationAtomicity ==
    /\ \A k \in DOMAIN compilations :
         LET c == compilations[k].compilation IN
         /\ c \in Constructed
         /\ id[c] = k
         /\ firstBuild[c] = "ok"
    /\ \A c \in Constructed :
         firstBuild[c] = "failed" =>
           /\ ~Has(compilations, id[c])
           /\ \A k \in DOMAIN compilations : compilations[k].compilation # c

\* A Compilation whose first build failed and whose later rebuild succeeded,
\* and is not registered.
C1_Witness ==
    \E c \in Constructed :
      /\ firstBuild[c] = "failed"
      /\ lastBuilt[c] # 0
      /\ stats[c] = lastBuilt[c]
      /\ ~Has(compilations, id[c])

\* C2: every Compilation that was returned to a client and is still active
\* is found in the registry under its ID, and the record holds it.
C2_ReturnedActiveRegistered ==
    \A c \in Returned :
      state[c] = "active" =>
        /\ Has(compilations, id[c])
        /\ compilations[id[c]].compilation = c

\* C4: once a dispose() call on a Compilation has finished, resolved or
\* rejected, the registry holds no record under the Compilation's ID.
C4_DisposedNotRegistered ==
    \A c \in Constructed :
      disposing[c] \in {"resolved", "rejected"} => ~Has(compilations, id[c])

\* C5: dispose() on a disposed Compilation fails with the invariant error and
\* changes nothing (no compiler is closed, no event emitted, state and
\* registry as they were); every compiler is closed at most once and
\* 'disposed' is emitted at most once.
C5_DisposeGuard ==
    /\ [](/\ (result.op = "dispose" /\ result.was = "disposed"
                => result.outcome = "InvariantError")
          /\ \A c \in Constructed :
               /\ emitted[c] <= 1
               /\ \A k \in DOMAIN compilers[c] : compilers[c][k].closeCalls <= 1)
    /\ [][(result' # result /\ result'.op = "dispose" /\ result'.was = "disposed")
            => UNCHANGED <<state, compilers, emitted, compilations, disposing, stats>>]_vars

\* dispose() called again while the first call still awaits the compilers,
\* and refused.
C5_Witness ==
    /\ result.op = "dispose"
    /\ result.outcome = "InvariantError"
    /\ result.arg \in Constructed
    /\ disposing[result.arg] = "awaiting"
    /\ \E k \in DOMAIN compilers[result.arg] : compilers[result.arg][k].status = "closing"

\* C6: disposed is terminal (no step takes a Compilation from disposed to
\* another state), and compile() on a disposed Compilation fails with the
\* invariant error, adding no compiler and leaving stats alone.
C6_DisposedTerminal ==
    /\ [](result.op = "Compilation.compile" /\ result.was = "disposed"
            => result.outcome = "InvariantError")
    /\ [][\A c \in Instances : state[c] = "disposed" => state'[c] = "disposed"]_vars
    /\ [][(result' # result /\ result'.op = "Compilation.compile" /\ result'.was = "disposed")
            => UNCHANGED <<state, compilers, stats, compilations, builds>>]_vars

\* compile() refused on a disposed Compilation.
C6_Witness ==
    /\ result.op = "Compilation.compile"
    /\ result.outcome = "InvariantError"
    /\ result.arg \in Constructed
    /\ state[result.arg] = "disposed"

\* C7: the manifest of a Compilation is the output of its most recent
\* successful build (none before the first); a build that fails leaves every
\* manifest and every state as it was and resolves no compile promise.
C7_ManifestIsLatest ==
    /\ [](\A c \in Instances : stats[c] = lastBuilt[c])
    /\ [][(builds' # builds /\ lastBuilt' = lastBuilt)
            => /\ stats' = stats
               /\ state' = state
               /\ \A c \in Instances : \A k \in DOMAIN compilers[c] :
                    compilers'[c][k].promise = "resolved"
                      => compilers[c][k].promise = "resolved"]_vars

\* One Compilation, built twice with success: the manifest is the second output.
C7_Witness ==
    /\ nComp = 1
    /\ firstBuild[1] = "ok"
    /\ builds = 2
    /\ stats[1] = 2
    /\ state[1] = "active"

\* Whether sequence p starts with sequence q.
StartsWith(p, q) == Len(p) >= Len(q) /\ SubSeq(p, 1, Len(q)) = q

\* C8 (namespace isolation): the file the asset route streams for a request
\* addressed to compilation ID B lies under compilation/B/dist/.
C8_NamespaceIsolation ==
    (result.op = "GET" /\ result.outcome = "stream")
      => StartsWith(result.file, <<"compilation", result.id, "dist">>)

\* C9 (pass-through): a request whose file is not in the memory file system
\* is not answered by the asset route; it goes down the stack, and a router
\* mounted with Compilation.use at that path answers it.
C9_PassThrough ==
    (result.op = "GET" /\ result.missing)
      => /\ result.outcome \in {"custom", "unhandled"}
         /\ result.mounted => result.outcome = "custom"

\* A request for a file the build never emitted, answered by the custom router.
C9_Witness ==
    /\ result.op = "GET"
    /\ result.missing
    /\ result.mounted
    /\ result.asset = <<ExtraJs>>
    /\ result.outcome = "custom"

\* C10: POST /compilation with an entry path that is not absolute is answered
\* with 400, and handling it creates no Compilation, starts no compiler and
\* leaves the registry as it was.
C10_RelativeEntryRejected ==
    /\ []((result.op = "POST" /\ ~result.absolute)
            => result.outcome = "400" /\ result.arg = 0)
    /\ [][(result' # result /\ result'.op = "POST" /\ ~result'.absolute)
            => UNCHANGED <<nComp, id, state, compilers, compilations, call, fs, builds>>]_vars

\* A POST with a relative entry answered 400 while a Compilation is registered.
C10_Witness ==
    /\ result.op = "POST"
    /\ ~result.absolute
    /\ result.outcome = "400"
    /\ DOMAIN compilations # {}

\* C11: a WebpackHttpServer.compile call of the Node API that is given an
\* entry path that is not absolute fails at once and constructs no
\* Compilation (so that no compiler is started for it).
C11_NodeEntryRejected ==
    (result.op = "compile" /\ ~result.absolute)
      => /\ result.arg = 0
         /\ result.outcome # "pending"

\* C12: once the first build of a Compilation made by POST /compilation has
\* completed, with success or with errors, the request has its response.
C12_PostAnswered ==
    \A c \in Constructed :
      firstBuild[c] # "none" => call[c] \notin {"httpPending", "unanswered"}

AllClosed(c) == \A k \in DOMAIN compilers[c] : compilers[c][k].status = "closed"

\* C14: a Compilation has emitted 'disposed', and its dispose() has
\* resolved, only when every compiler it owns has confirmed its closure; no
\* step but close takes the record of a Compilation out of the registry
\* while one of its compilers has not.
C14_DisposedAfterAllClosed ==
    /\ [](\A c \in Instances :
            (emitted[c] > 0 \/ disposing[c] = "resolved") => AllClosed(c))
    /\ [][\A c \in Instances :
            (/\ state[c] # "none"
             /\ Has(compilations, id[c])
             /\ ~Has(compilations', id[c])
             /\ ~close)
              => /\ emitted'[c] = emitted[c] + 1
                 /\ \A k \in DOMAIN compilers'[c] : compilers'[c][k].status = "closed"]_vars

\* A Compilation with two compilers whose dispose() has resolved after
\* both closed.
C14_Witness ==
    \E c \in Constructed :
      /\ Len(compilers[c]) = 2
      /\ emitted[c] = 1
      /\ disposing[c] = "resolved"
      /\ ~Has(compilations, id[c])

\* C15: a WebpackHttpServer.compile call made while the listener is not
\* bound (before listen, between the call of listen and its resolution,
\* after close) fails with the error of the serverUrl getter, which is the
\* precondition (invariant) error, and constructs no Compilation.
\* (A step that records "resolved" or "rejected" is the settlement of a
\* call made earlier, not a call.)
C15_ServerUrlPrecondition ==
    [][(/\ result' # result
        /\ result'.op = "compile"
        /\ result'.outcome \notin {"resolved", "rejected"}
        /\ server # "bound")
         => /\ result'.outcome = "InvariantError"
            /\ nComp' = nComp]_vars

\* C16: when the read stream of an asset request has reported an error, the
\* error has been logged and the response ended; a response is never left
\* open by a stream that is over.
C16_StreamTerminated ==
    result.op = "GET" => result.outcome \notin {"logged, open", "uncaught, open"}

\* C17: a request under the preview prefix of a Compilation whose dispose()
\* has resolved is not answered by a router mounted with Compilation.use.
C17_RoutesReleased ==
    [][(result' # result /\ result'.op = "GET" /\ result'.outcome = "custom")
         => \A c \in Constructed :
              id[c] = result'.id => disposing[c] # "resolved"]_vars

\* The step is one of Compilation a: its construction, a build of one of
\* its compilers, a compile or dispose call on it, or a close callback of
\* one of its compilers.
StepOf(a) ==
    \/ nComp' = a /\ nComp = a - 1
    \/ \E k \in 1..MaxCompilers, ok \in BOOLEAN : watchCallback(a, k, ok)
    \/ a <= nComp /\ CompilationCompile(a)
    \/ a <= nComp /\ dispose(a)
    \/ \E k \in 1..MaxCompilers, error \in BOOLEAN : closeCallback(a, k, error)

\* The step leaves Compilation b as it is: its state, its manifest, its
\* compilers, the call that made it and its record in the registry.
Untouched(b) ==
    /\ state'[b] = state[b]
    /\ stats'[b] = stats[b]
    /\ compilers'[b] = compilers[b]
    /\ call'[b] = call[b]
    /\ Has(compilations', id[b]) <=> Has(compilations, id[b])
    /\ Has(compilations, id[b]) => compilations'[id[b]] = compilations[id[b]]

\* C18 (independence): every step of a Compilation leaves every other
\* Compilation, which has another ID, untouched (a step that touches
\* Compilation b is a step of no other Compilation).
C18_Independence ==
    /\ [](\A a, b \in Constructed : a # b => id[a] # id[b])
    /\ [][\A b \in Constructed : ~Untouched(b) =>
            \A a \in Instances \ {b} : ~StepOf(a)]_vars

\* A Compilation made after another one is returned and registered while
\* the first build of the earlier one is still pending.
C18_Witness ==
    \E a, b \in Constructed :
      /\ a < b
      /\ firstBuild[a] = "none"
      /\ call[a] \in {"pending", "httpPending"}
      /\ call[b] \in {"returned", "responded"}
      /\ Has(compilations, id[b])
      /\ stats[b] # 0

\* C19: every record of the registry holds a Compilation whose stats are
\* set, so a preview request that passes the registry lookup is never
\* answered with the 'No webpack stats found' message.
C19_RegisteredHasStats ==
    /\ \A k \in DOMAIN compilations : stats[compilations[k].compilation] # 0
    /\ result.op = "GET preview" => result.outcome # "noStats"

\* A preview rendered for a registered Compilation whose latest build
\* failed: the stats are those of the build before.
C19_Witness ==
    /\ result.op = "GET preview"
    /\ result.outcome = "preview"
    /\ Has(compilations, result.id)
    /\ LET c == compilations[result.id].compilation IN
         /\ stats[c] = 1
         /\ builds = 2

\* C20: the record of a Compilation enters the registry only in the step
\* that completes its first build with success: at most once, and never
\* again once it has been removed by its disposal or by close.
C20_InsertedOnce ==
    [][\A c \in Instances :
         (~Has(compilations, id'[c]) /\ Has(compilations', id'[c]))
           => /\ firstBuild[c] = "none"
              /\ firstBuild'[c] = "ok"]_vars

\* A Compilation whose record close has cleared, rebuilt with success since
\* and still out of the registry.
C20_Witness ==
    \E c \in Constructed :
      /\ firstBuild[c] = "ok"
      /\ state[c] = "active"
      /\ stats[c] = 2
      /\ lastBuilt[c] = 2
      /\ ~Has(compilations, id[c])

\* C21 (no orphan watcher): a Compilation one of whose compilers is still
\* watching is held by a record of the registry, or the call that creates
\* it is still pending.
C21_NoOrphanWatcher ==
    \A c \in Constructed :
      (\E k \in DOMAIN compilers[c] : compilers[c][k].status = "watching")
        => \/ /\ Has(compilations, id[c])
              /\ compilations[id[c]].compilation = c
           \/ call[c] \in {"pending", "httpPending"}

====
